---------------------------- MODULE Spec2Model ----------------------------
(***************************************************************************)
(* PhoneDash inventory service (services.py, utils.py, database.py).       *)
(*                                                                         *)
(* Python dicts are functions with a string domain, Python lists are       *)
(* sequences.  Money is an integer number of mills (1/1000 of a currency   *)
(* unit), so that a base price with three decimals can be written and the  *)
(* rounding to two decimals is visible: 500.00 is 500000, 0.001 is 1.      *)
(* The `specifications` field is always a mapping here (the string form    *)
(* that _ensure_specifications_is_dict decodes is not modelled), and       *)
(* ActionLog.timestamp is left out.  Field values are of their declared    *)
(* types (models.py): no explicit null for a scalar field.                 *)
(***************************************************************************)
EXTENDS Integers, Sequences, FiniteSets, TLC

VARIABLES
    db,             \* database.db: the in-memory phone collection
    action_log_db,  \* database.action_log_db: the in-memory log, newest first
    phone_file,     \* contents of phone_inventory.json
    log_file,       \* contents of action_log.json
    result,         \* what the last service call returned
    calc,           \* a call of calculate_platform_price and its return value
    procs,          \* per request inside create_phone: its position and locals
    serialized      \* whether requests enter the service one at a time

vars == <<db, action_log_db, phone_file, log_file, result, calc,
          procs, serialized>>

---------------------------------------------------------------------------
(* Bounds of the model. *)

MaxPhones == 2   \* create is not taken when the collection already holds this many
MaxLog == 3      \* no call is taken whose log entries would not fit
NumProcs == 2    \* requests that may be in create_phone at the same time

---------------------------------------------------------------------------
(* utils.py *)

\* Python's None where a number is expected (an Optional[float] override,
\* a price not yet computed).
NoneValue == -1

\* Python's None where a string is expected (no mapped condition, no filter).
NoneStr == "<None>"

PLATFORMS == <<"X", "Y", "Z">>

PlatformSet == {PLATFORMS[i] : i \in DOMAIN PLATFORMS}

\* round(n/d, 2) of a non-negative amount of n/d mills: the nearest multiple
\* of 10 mills, the even one on an exact tie.  (On an exact decimal tie the
\* binary float decides in Python; the sampled inputs contain no tie.)
Round2(n, d) ==
    LET q == n \div (10 * d)
        r == n - q * 10 * d
    IN  IF 2 * r > 10 * d THEN (q + 1) * 10
        ELSE IF 2 * r < 10 * d THEN q * 10
        ELSE IF q % 2 = 0 THEN q * 10 ELSE (q + 1) * 10

\* Mutant: platform Y's fixed fee of 2.0 is forgotten.
calculate_platform_price_no_fixed_fee(base_price, platform, manual_overrides) ==
    IF platform \in DOMAIN manual_overrides
       /\ manual_overrides[platform] # NoneValue
    THEN manual_overrides[platform]
    ELSE IF platform = "X" THEN Round2(base_price * 110, 100)
    ELSE IF platform = "Y" THEN Round2(base_price * 108, 100)
    ELSE IF platform = "Z" THEN Round2(base_price * 112, 100)
    ELSE Round2(base_price, 1)

calculate_platform_price(base_price, platform, manual_overrides) ==
    IF platform \in DOMAIN manual_overrides
       /\ manual_overrides[platform] # NoneValue
    THEN manual_overrides[platform]
    ELSE IF platform = "X" THEN Round2(base_price * 110, 100)
    ELSE IF platform = "Y" THEN Round2(base_price * 108 + 2000 * 100, 100)
    ELSE IF platform = "Z" THEN Round2(base_price * 112, 100)
    ELSE Round2(base_price, 1)

CONDITION_MAPPERS ==
    [X |-> [Excellent |-> "New", Good |-> "Good", Scrap |-> "Scrap"],
     Y |-> [Excellent |-> "3 stars (Excellent)", Good |-> "2 stars (Good)",
            Usable |-> "1 star (Usable)"],
     Z |-> [Excellent |-> "New", Good |-> "As New", Usable |-> "Good"]]

map_condition_to_platform(internal_condition, platform) ==
    IF platform \in DOMAIN CONDITION_MAPPERS
    THEN IF internal_condition \in DOMAIN CONDITION_MAPPERS[platform]
         THEN CONDITION_MAPPERS[platform][internal_condition]
         ELSE NoneStr
    ELSE NoneStr

---------------------------------------------------------------------------
(* services.py: the service calls as functions from the state before the   *)
(* call to the state after it and the returned value.                      *)

\* The four collections a call reads and writes.
State == [db |-> db, action_log_db |-> action_log_db,
          phone_file |-> phone_file, log_file |-> log_file]

Returning(st, r) ==
    [db |-> st.db, action_log_db |-> st.action_log_db,
     phone_file |-> st.phone_file, log_file |-> st.log_file, result |-> r]

MaxOf(S) == CHOOSE m \in S : \A x \in S : x <= m

\* Mutant: the collection is not written to the file.
save_phone_database_skipped(st) == st

save_phone_database(st) == [st EXCEPT !.phone_file = st.db]

save_log_database(st) == [st EXCEPT !.log_file = st.action_log_db]

\* Mutant: the new entry is appended at the tail of the log.
log_action_at_tail(st, action, details) ==
    LET log == st.action_log_db
        log_id == IF log # <<>>
                  THEN MaxOf({log[i].id : i \in DOMAIN log}) + 1
                  ELSE 1
        new_log == [id |-> log_id, action |-> action, details |-> details]
    IN  save_log_database([st EXCEPT !.action_log_db = Append(log, new_log)])

log_action(st, action, details) ==
    LET log == st.action_log_db
        log_id == IF log # <<>>
                  THEN MaxOf({log[i].id : i \in DOMAIN log}) + 1
                  ELSE 1
        new_log == [id |-> log_id, action |-> action, details |-> details]
    IN  save_log_database([st EXCEPT !.action_log_db = <<new_log>> \o log])

\* Index in db of the first phone with this id, 0 when there is none.
FirstIndex(phones, phone_id) ==
    IF \E i \in DOMAIN phones : phones[i].id = phone_id
    THEN CHOOSE i \in DOMAIN phones :
            /\ phones[i].id = phone_id
            /\ \A j \in 1..(i - 1) : phones[j].id # phone_id
    ELSE 0

\* The attributes Phone requires; Phone(**phone) raises when one is missing.
RequiredFields ==
    {"id", "model_name", "brand", "condition", "specifications",
     "stock_quantity", "base_price", "platform_prices"}

ValidPhone(phone) == RequiredFields \subseteq DOMAIN phone

\* What a call that raised leaves as its outcome.
Raised(error) == [kind |-> "raise", error |-> error]

PricesOf(phone) ==
    [p \in PlatformSet |->
        calculate_platform_price(phone.base_price, p, phone.manual_overrides)]

\* Mutant: the next id is the largest id in use.
NextPhoneId_without_increment(phones) ==
    IF phones # <<>>
    THEN MaxOf({phones[i].id : i \in DOMAIN phones})
    ELSE 1

\* phone_id = max([p["id"] for p in db]) + 1 if db else 1
NextPhoneId(phones) ==
    IF phones # <<>>
    THEN MaxOf({phones[i].id : i \in DOMAIN phones}) + 1
    ELSE 1

\* The record create_phone builds from the id and the attributes.
NewPhone(phone_id, phone_data) ==
    LET blank == [platform_prices |-> <<>>, manual_overrides |-> <<>>,
                  listed_on |-> <<>>, tags |-> <<>>]
                 @@ phone_data @@ [id |-> phone_id]
    IN  [blank EXCEPT !.platform_prices = PricesOf(blank)]

create_phone(st, phone_data) ==
    LET phone_id == NextPhoneId(st.db)
        new_phone == NewPhone(phone_id, phone_data)
        s1 == save_phone_database([st EXCEPT !.db = Append(st.db, new_phone)])
        s2 == log_action(s1, "Phone Created", <<phone_data.model_name>>)
    IN  IF ValidPhone(new_phone)
        THEN Returning(s2, [kind |-> "Phone", phone |-> new_phone])
        ELSE Returning(s2, Raised("ValidationError"))

\* Mutant: the prices are recomputed only when the update carries a base price.
update_phone_reprice_on_base_price(st, phone_id, phone_update) ==
    LET i == FirstIndex(st.db, phone_id)
    IN  IF i = 0 THEN Returning(st, [kind |-> "None"])
        ELSE
        LET phone == st.db[i]
            has_mo == "manual_overrides" \in DOMAIN phone_update
            p1 == IF has_mo
                  THEN [phone EXCEPT
                          !.manual_overrides = phone_update.manual_overrides]
                  ELSE phone
            rest == [k \in DOMAIN phone_update \ {"manual_overrides"} |->
                        phone_update[k]]
            p2 == rest @@ p1
            p3 == IF "base_price" \in DOMAIN phone_update
                  THEN [p2 EXCEPT !.platform_prices = PricesOf(p2)]
                  ELSE p2
            s1 == save_phone_database([st EXCEPT !.db[i] = p3])
            s2 == log_action(s1, "Phone Updated", <<phone_id, p3.model_name>>)
        IN  Returning(s2, [kind |-> "Phone", phone |-> p3])

\* Mutant: the overrides of the update are merged into the old ones key by key.
update_phone_merge_overrides(st, phone_id, phone_update) ==
    LET i == FirstIndex(st.db, phone_id)
    IN  IF i = 0 THEN Returning(st, [kind |-> "None"])
        ELSE
        LET phone == st.db[i]
            has_mo == "manual_overrides" \in DOMAIN phone_update
            p1 == IF has_mo
                  THEN [phone EXCEPT
                          !.manual_overrides =
                              phone_update.manual_overrides @@ phone.manual_overrides]
                  ELSE phone
            rest == [k \in DOMAIN phone_update \ {"manual_overrides"} |->
                        phone_update[k]]
            p2 == rest @@ p1
            p3 == [p2 EXCEPT !.platform_prices = PricesOf(p2)]
            s1 == save_phone_database([st EXCEPT !.db[i] = p3])
            s2 == log_action(s1, "Phone Updated", <<phone_id, p3.model_name>>)
        IN  Returning(s2, [kind |-> "Phone", phone |-> p3])

\* Mutant: a phone whose stock is updated to 0 is taken off every platform.
update_phone_delists_out_of_stock(st, phone_id, phone_update) ==
    LET i == FirstIndex(st.db, phone_id)
    IN  IF i = 0 THEN Returning(st, [kind |-> "None"])
        ELSE
        LET phone == st.db[i]
            has_mo == "manual_overrides" \in DOMAIN phone_update
            p1 == IF has_mo
                  THEN [phone EXCEPT
                          !.manual_overrides = phone_update.manual_overrides]
                  ELSE phone
            rest == [k \in DOMAIN phone_update \ {"manual_overrides"} |->
                        phone_update[k]]
            p2 == rest @@ p1
            p3 == [p2 EXCEPT !.platform_prices = PricesOf(p2),
                             !.listed_on = IF p2.stock_quantity = 0 THEN <<>>
                                           ELSE p2.listed_on]
            s1 == save_phone_database([st EXCEPT !.db[i] = p3])
            s2 == log_action(s1, "Phone Updated", <<phone_id, p3.model_name>>)
        IN  Returning(s2, [kind |-> "Phone", phone |-> p3])

update_phone(st, phone_id, phone_update) ==
    LET i == FirstIndex(st.db, phone_id)
    IN  IF i = 0 THEN Returning(st, [kind |-> "None"])
        ELSE
        LET phone == st.db[i]
            has_mo == "manual_overrides" \in DOMAIN phone_update
            p1 == IF has_mo
                  THEN [phone EXCEPT
                          !.manual_overrides = phone_update.manual_overrides]
                  ELSE phone
            rest == [k \in DOMAIN phone_update \ {"manual_overrides"} |->
                        phone_update[k]]
            p2 == rest @@ p1
            p3 == [p2 EXCEPT !.platform_prices = PricesOf(p2)]
            s1 == save_phone_database([st EXCEPT !.db[i] = p3])
            s2 == log_action(s1, "Phone Updated", <<phone_id, p3.model_name>>)
        IN  IF ValidPhone(p3)
            THEN Returning(s2, [kind |-> "Phone", phone |-> p3])
            ELSE Returning(s2, Raised("ValidationError"))

RemoveAt(s, i) == SubSeq(s, 1, i - 1) \o SubSeq(s, i + 1, Len(s))

\* Mutant: the save and the log entry are outside the `if phone_to_delete`.
delete_phone_logs_always(st, phone_id) ==
    LET i == FirstIndex(st.db, phone_id)
        s0 == IF i = 0 THEN st ELSE [st EXCEPT !.db = RemoveAt(st.db, i)]
        model_name == IF i = 0 THEN NoneStr ELSE st.db[i].model_name
        s1 == save_phone_database(s0)
        s2 == log_action(s1, "Phone Deleted", <<model_name, phone_id>>)
    IN  Returning(s2, [kind |-> "bool", value |-> i # 0])

delete_phone(st, phone_id) ==
    LET i == FirstIndex(st.db, phone_id)
    IN  IF i = 0 THEN Returning(st, [kind |-> "bool", value |-> FALSE])
        ELSE
        LET model_name == st.db[i].model_name
            s1 == save_phone_database([st EXCEPT !.db = RemoveAt(st.db, i)])
            s2 == log_action(s1, "Phone Deleted", <<model_name, phone_id>>)
        IN  Returning(s2, [kind |-> "bool", value |-> TRUE])

InSeq(x, s) == \E k \in DOMAIN s : s[k] = x

\* Mutant: no `platform not in phone.listed_on` test before the append.
list_phone_on_platform_always_appends(st, phone_id, platform) ==
    LET i == FirstIndex(st.db, phone_id)
    IN  IF i = 0
        THEN Returning(st, [kind |-> "error", error |-> "Phone not found"])
        ELSE
        LET phone == st.db[i]
        IN  IF phone.stock_quantity = 0
            THEN Returning(st, [kind |-> "error",
                                error |-> "Cannot list out-of-stock phone"])
            ELSE IF map_condition_to_platform(phone.condition, platform) = NoneStr
            THEN Returning(st, [kind |-> "error",
                                error |-> "Condition not supported",
                                condition |-> phone.condition,
                                platform |-> platform])
            ELSE IF platform = "X" /\ phone.base_price < 50000
            THEN Returning(st, [kind |-> "error",
                                error |-> "Listing fee too high for this phone on platform X"])
            ELSE
            LET msg == [kind |-> "message", message |-> "Successfully listed",
                        model_name |-> phone.model_name, platform |-> platform]
                s1 == save_phone_database(
                        [st EXCEPT !.db[i].listed_on =
                                      Append(phone.listed_on, platform)])
                s2 == log_action(s1, "Platform Listing",
                                 <<phone.model_name, platform>>)
            IN  Returning(s2, msg)

\* Mutant: the condition is checked before the stock.
list_phone_on_platform_condition_first(st, phone_id, platform) ==
    LET i == FirstIndex(st.db, phone_id)
    IN  IF i = 0
        THEN Returning(st, [kind |-> "error", error |-> "Phone not found"])
        ELSE
        LET phone == st.db[i]
        IN  IF map_condition_to_platform(phone.condition, platform) = NoneStr
            THEN Returning(st, [kind |-> "error",
                                error |-> "Condition not supported",
                                condition |-> phone.condition,
                                platform |-> platform])
            ELSE IF phone.stock_quantity = 0
            THEN Returning(st, [kind |-> "error",
                                error |-> "Cannot list out-of-stock phone"])
            ELSE IF platform = "X" /\ phone.base_price < 50000
            THEN Returning(st, [kind |-> "error",
                                error |-> "Listing fee too high for this phone on platform X"])
            ELSE
            LET msg == [kind |-> "message", message |-> "Successfully listed",
                        model_name |-> phone.model_name, platform |-> platform]
            IN  IF ~InSeq(platform, phone.listed_on)
                THEN
                LET s1 == save_phone_database(
                            [st EXCEPT !.db[i].listed_on =
                                          Append(phone.listed_on, platform)])
                    s2 == log_action(s1, "Platform Listing",
                                     <<phone.model_name, platform>>)
                IN  Returning(s2, msg)
                ELSE Returning(st, msg)

list_phone_on_platform(st, phone_id, platform) ==
    LET i == FirstIndex(st.db, phone_id)
    IN  IF i = 0
        THEN Returning(st, [kind |-> "error", error |-> "Phone not found"])
        ELSE
        LET phone == st.db[i]
        IN  IF ~ValidPhone(phone)
            THEN Returning(st, Raised("ValidationError"))
            ELSE IF phone.stock_quantity = 0
            THEN Returning(st, [kind |-> "error",
                                error |-> "Cannot list out-of-stock phone"])
            ELSE IF map_condition_to_platform(phone.condition, platform) = NoneStr
            THEN Returning(st, [kind |-> "error",
                                error |-> "Condition not supported",
                                condition |-> phone.condition,
                                platform |-> platform])
            ELSE IF platform = "X" /\ phone.base_price < 50000
            THEN Returning(st, [kind |-> "error",
                                error |-> "Listing fee too high for this phone on platform X"])
            ELSE
            LET msg == [kind |-> "message", message |-> "Successfully listed",
                        model_name |-> phone.model_name, platform |-> platform]
            IN  IF ~InSeq(platform, phone.listed_on)
                THEN
                LET s1 == save_phone_database(
                            [st EXCEPT !.db[i].listed_on =
                                          Append(phone.listed_on, platform)])
                    s2 == log_action(s1, "Platform Listing",
                                     <<phone.model_name, platform>>)
                IN  Returning(s2, msg)
                ELSE Returning(st, msg)

\* str.lower() on the strings that occur as brands, conditions and filters.
LowerTable ==
    [Apple |-> "apple", APPLE |-> "apple", SAMSUNG |-> "samsung",
     Good |-> "good", GOOD |-> "good", Usable |-> "usable",
     Excellent |-> "excellent", Scrap |-> "scrap"]

Lower(s) == IF s \in DOMAIN LowerTable THEN LowerTable[s] ELSE s

\* Truth value of an Optional[str] argument: None and "" are both false.
Truthy(s) == s # NoneStr /\ s # ""

Min(a, b) == IF a <= b THEN a ELSE b

FilterPhones(phones, brand, condition, platform) ==
    LET r1 == IF Truthy(brand)
              THEN SelectSeq(phones, LAMBDA p : Lower(p.brand) = Lower(brand))
              ELSE phones
        r2 == IF Truthy(condition)
              THEN SelectSeq(r1, LAMBDA p : Lower(p.condition) = Lower(condition))
              ELSE r1
    IN  IF Truthy(platform)
        THEN SelectSeq(r2, LAMBDA p : InSeq(platform, p.listed_on))
        ELSE r2

search_and_filter_phones(phones, brand, condition, platform, skip, limit) ==
    LET results == FilterPhones(phones, brand, condition, platform)
    IN  [total_items |-> Len(results),
         items |-> SubSeq(results, skip + 1, Min(skip + limit, Len(results)))]

RECURSIVE SumSeq(_)
\* sum(...) over a list of numbers.
SumSeq(s) == IF s = <<>> THEN 0 ELSE Head(s) + SumSeq(Tail(s))

\* {x: xs.count(x) for x in set(xs)}
CountBy(xs) ==
    [x \in {xs[k] : k \in DOMAIN xs} |->
        Cardinality({k \in DOMAIN xs : xs[k] = x})]

\* p[k] for every p in the list raises KeyError when a p has no key k.
AllHave(phones, k) == \A i \in DOMAIN phones : k \in DOMAIN phones[i]

get_dashboard_analytics(phones, brand, condition, platform) ==
    IF Truthy(brand) /\ ~AllHave(phones, "brand")
    THEN Raised("KeyError")
    ELSE
    LET r1 == IF Truthy(brand)
              THEN SelectSeq(phones, LAMBDA p : Lower(p.brand) = Lower(brand))
              ELSE phones
    IN  IF Truthy(condition) /\ ~AllHave(r1, "condition")
        THEN Raised("KeyError")
        ELSE
        LET r2 == IF Truthy(condition)
                  THEN SelectSeq(r1, LAMBDA p :
                                        Lower(p.condition) = Lower(condition))
                  ELSE r1
            results == IF Truthy(platform)
                       THEN SelectSeq(r2, LAMBDA p : InSeq(platform, p.listed_on))
                       ELSE r2
        IN  IF results = <<>>
            THEN [total_phones |-> 0, total_stock_units |-> 0,
                  total_inventory_value |-> 0,
                  stock_by_brand |-> <<>>, stock_by_condition |-> <<>>]
            ELSE IF \/ ~AllHave(results, "brand")
                    \/ ~AllHave(results, "condition")
                    \/ ~AllHave(results, "base_price")
                    \/ ~AllHave(results, "stock_quantity")
            THEN Raised("KeyError")
            ELSE [total_phones |-> Len(results),
                  total_stock_units |->
                      SumSeq([k \in DOMAIN results |-> results[k].stock_quantity]),
                  total_inventory_value |->
                      SumSeq([k \in DOMAIN results |->
                                 results[k].base_price * results[k].stock_quantity]),
                  stock_by_brand |->
                      CountBy([k \in DOMAIN results |-> results[k].brand]),
                  stock_by_condition |->
                      CountBy([k \in DOMAIN results |-> results[k].condition])]

RECURSIVE BulkListLoop(_, _, _, _, _, _)
\* The for loop of bulk_list_on_platform from its k-th item on: the items are
\* the copies taken before the loop, each listing acts on the current state.
BulkListLoop(st, items, k, platform, success_count, fail_count) ==
    IF k > Len(items)
    THEN [st |-> st, success |-> success_count, failed |-> fail_count]
    ELSE IF ~InSeq(platform, items[k].listed_on)
    THEN LET out == list_phone_on_platform(st, items[k].id, platform)
         IN  IF out.result.kind = "error"
             THEN BulkListLoop(out, items, k + 1, platform,
                               success_count, fail_count + 1)
             ELSE BulkListLoop(out, items, k + 1, platform,
                               success_count + 1, fail_count)
    ELSE BulkListLoop(st, items, k + 1, platform, success_count, fail_count)

bulk_list_on_platform(st, platform, brand, condition) ==
    LET phone_page == search_and_filter_phones(st.db, brand, condition,
                                               NoneStr, 0, Len(st.db))
        done == BulkListLoop(st, phone_page.items, 1, platform, 0, 0)
        s1 == log_action(done.st, "Bulk Listing",
                         <<done.success + done.failed, platform,
                           done.success, done.failed>>)
    IN  Returning(s1, [kind |-> "counts", success |-> done.success,
                       failed |-> done.failed])

update_platform_prices(st) ==
    LET reprice(phone) ==
            [phone EXCEPT !.platform_prices =
                [p \in PlatformSet |->
                    calculate_platform_price(
                        phone.base_price, p,
                        IF "manual_overrides" \in DOMAIN phone
                        THEN phone.manual_overrides ELSE <<>>)]]
        s1 == save_phone_database(
                [st EXCEPT !.db = [i \in DOMAIN st.db |-> reprice(st.db[i])]])
        s2 == log_action(s1, "Price Update", <<>>)
    IN  Returning(s2, [kind |-> "None"])

RECURSIVE BulkUploadLoop(_, _, _)
\* The for loop from its k-th row on; a create that raises ends the call.
BulkUploadLoop(st, phones_data, k) ==
    IF k > Len(phones_data) THEN Returning(st, [kind |-> "None"])
    ELSE LET out == create_phone(st, phones_data[k])
         IN  IF out.result.kind = "raise" THEN out
             ELSE BulkUploadLoop(out, phones_data, k + 1)

bulk_upload_phones(st, phones_data) ==
    LET s1 == BulkUploadLoop(st, phones_data, 1)
    IN  IF s1.result.kind = "raise" THEN s1
        ELSE Returning(log_action(s1, "Bulk Upload", <<Len(phones_data)>>),
                       [kind |-> "None"])

---------------------------------------------------------------------------
(* Inputs. *)

PhoneCreateInputs ==
    { [model_name |-> "iPhone 12", brand |-> "Apple", condition |-> "Good",
       specifications |-> [storage |-> "128GB"],
       stock_quantity |-> 10, base_price |-> 500000],
      [model_name |-> "Galaxy S9", brand |-> "samsung", condition |-> "Usable",
       specifications |-> [storage |-> "64GB"],
       stock_quantity |-> 0, base_price |-> 40000] }

PhoneUpdateInputs ==
    { [stock_quantity |-> 0],
      [stock_quantity |-> 10, base_price |-> 40000],
      [condition |-> "Usable"],
      [manual_overrides |-> [Y |-> 545000]],
      [manual_overrides |-> [X |-> NoneValue, Z |-> 600000],
       base_price |-> 600000] }

IdInputs == 1..MaxLog

PlatformInputs == {"X", "Y", "W"}

BrandFilters == {NoneStr, "APPLE"}

ConditionFilters == {NoneStr, "usable"}

BulkUploadInputs ==
    {<<>>} \cup {<<d>> : d \in PhoneCreateInputs}
           \cup {<<d, e>> : d, e \in PhoneCreateInputs}

PlatformFilters == {NoneStr, "X"}

\* Mappings that carry a key the request models do not declare: a CSV with an
\* id column (main.py passes every column on), a caller of the service that
\* puts an id into the attributes.
PhoneCreateInputsWithId ==
    {[id |-> 1] @@ d : d \in PhoneCreateInputs}

PhoneUpdateInputsWithId == {[id |-> 1], [id |-> 2, stock_quantity |-> 10]}

BulkUploadInputsWithId ==
    {<<d>> : d \in PhoneCreateInputsWithId}
        \cup {<<d, e>> : d, e \in PhoneCreateInputsWithId}

\* A CSV without a stock_quantity column: every row lacks the key.
BulkUploadInputsAnyColumns ==
    {<<[k \in DOMAIN d \ {"stock_quantity"} |-> d[k]]>> : d \in PhoneCreateInputs}

\* Arguments of calculate_platform_price: base prices with up to three
\* decimals, a platform code that is or is not one of X, Y, Z, and overrides.
BasePriceSamples == {1, 4, 19990, 40000, 49999, 50000, 123456, 500000}

CalcPlatforms == {"X", "Y", "Z", "W"}

OverrideSamples ==
    {<<>>, [Y |-> 545000], [X |-> NoneValue, Z |-> 600000],
     [X |-> 1, Y |-> NoneValue, W |-> 777000]}

\* The requests that may be inside create_phone, and one that is not.
Procs == 1..NumProcs

Idle == [pc |-> "idle", phone_data |-> <<>>, phone_id |-> NoneValue,
         new_phone |-> <<>>]

---------------------------------------------------------------------------
(* The state machine: one call at a time (main.py's handlers are           *)
(* synchronous and the model serializes them).                             *)

NoCalc == [base_price |-> 0, platform |-> NoneStr,
           manual_overrides |-> <<>>, called |-> FALSE, price |-> NoneValue]

Init ==
    /\ db = <<>>
    /\ action_log_db = <<>>
    /\ phone_file = <<>>
    /\ log_file = <<>>
    /\ result = [kind |-> "None"]
    /\ calc = NoCalc
    /\ procs = [t \in Procs |-> Idle]
    /\ serialized = TRUE

\* The call's outcome becomes the next state, if it fits the bounds.
Becomes(out) ==
    /\ Len(out.action_log_db) <= MaxLog
    /\ db' = out.db
    /\ action_log_db' = out.action_log_db
    /\ phone_file' = out.phone_file
    /\ log_file' = out.log_file
    /\ result' = out.result
    /\ UNCHANGED <<calc, procs, serialized>>

CreatePhone ==
    \E phone_data \in PhoneCreateInputs :
        /\ Len(db) < MaxPhones
        /\ Becomes(create_phone(State, phone_data))

UpdatePhone ==
    \E phone_id \in IdInputs, phone_update \in PhoneUpdateInputs :
        Becomes(update_phone(State, phone_id, phone_update))

DeletePhone ==
    \E phone_id \in IdInputs :
        Becomes(delete_phone(State, phone_id))

ListPhoneOnPlatform ==
    \E phone_id \in IdInputs, platform \in PlatformInputs :
        Becomes(list_phone_on_platform(State, phone_id, platform))

BulkListOnPlatform ==
    \E platform \in PlatformInputs, brand \in BrandFilters,
       condition \in ConditionFilters :
        Becomes(bulk_list_on_platform(State, platform, brand, condition))

UpdatePlatformPrices ==
    Becomes(update_platform_prices(State))

BulkUploadPhones ==
    \E phones_data \in BulkUploadInputs :
        /\ Len(db) + Len(phones_data) <= MaxPhones
        /\ Becomes(bulk_upload_phones(State, phones_data))

Next ==
    \/ CreatePhone
    \/ UpdatePhone
    \/ DeletePhone
    \/ ListPhoneOnPlatform
    \/ BulkListOnPlatform
    \/ UpdatePlatformPrices
    \/ BulkUploadPhones

Spec == Init /\ [][Next]_vars

---------------------------------------------------------------------------
(* The same service called with mappings that may carry an id key. *)

CreatePhoneWithId ==
    \E phone_data \in PhoneCreateInputsWithId :
        /\ Len(db) < MaxPhones
        /\ Becomes(create_phone(State, phone_data))

UpdatePhoneWithId ==
    \E phone_id \in IdInputs, phone_update \in PhoneUpdateInputsWithId :
        Becomes(update_phone(State, phone_id, phone_update))

BulkUploadPhonesWithId ==
    \E phones_data \in BulkUploadInputsWithId :
        /\ Len(db) + Len(phones_data) <= MaxPhones
        /\ Becomes(bulk_upload_phones(State, phones_data))

NextAnyKeys ==
    \/ Next
    \/ CreatePhoneWithId
    \/ UpdatePhoneWithId
    \/ BulkUploadPhonesWithId

SpecAnyKeys == Init /\ [][NextAnyKeys]_vars

---------------------------------------------------------------------------
(* The dashboard read beside the calls that change what it reads, the     *)
(* upload taking whatever columns the CSV has.                             *)

BulkUploadPhonesAnyColumns ==
    \E phones_data \in BulkUploadInputs \cup BulkUploadInputsAnyColumns :
        /\ Len(db) + Len(phones_data) <= MaxPhones
        /\ Becomes(bulk_upload_phones(State, phones_data))

GetDashboardAnalytics ==
    \E brand \in BrandFilters, condition \in ConditionFilters,
       platform \in PlatformFilters :
        /\ result' = get_dashboard_analytics(db, brand, condition, platform)
                     @@ [kind |-> "analytics"]
        /\ UNCHANGED <<db, action_log_db, phone_file, log_file, calc,
                       procs, serialized>>

NextAnalytics ==
    \/ BulkUploadPhonesAnyColumns
    \/ UpdatePhone
    \/ DeletePhone
    \/ ListPhoneOnPlatform
    \/ GetDashboardAnalytics

SpecAnalytics == Init /\ [][NextAnalytics]_vars

---------------------------------------------------------------------------
(* create_phone statement by statement, called by requests that each run  *)
(* in a thread of their own (add_new_phone is a plain def, which the       *)
(* framework runs in its thread pool). serialized says whether the         *)
(* deployment lets one request into the service at a time; without it a    *)
(* request may be between any two statements while another runs.           *)
(* log_action is taken as one step.                                        *)

InitInterleaved ==
    /\ db = <<>>
    /\ action_log_db = <<>>
    /\ phone_file = <<>>
    /\ log_file = <<>>
    /\ result = [kind |-> "None"]
    /\ calc = NoCalc
    /\ procs = [t \in Procs |-> Idle]
    /\ serialized \in BOOLEAN

InCall == {t \in Procs : procs[t].pc # "idle"}

\* Line 89 to 105: the id is read from db and the record is built.
CreateReadId(t) ==
    \E phone_data \in PhoneCreateInputs :
        /\ procs[t].pc = "idle"
        /\ serialized => InCall = {}
        /\ Len(db) + Cardinality({u \in Procs : procs[u].pc = "append"})
              < MaxPhones
        /\ Len(action_log_db) + Cardinality(InCall) < MaxLog
        /\ procs' = [procs EXCEPT ![t] =
                        [pc |-> "append", phone_data |-> phone_data,
                         phone_id |-> NextPhoneId(db),
                         new_phone |-> NewPhone(NextPhoneId(db), phone_data)]]
        /\ UNCHANGED <<db, action_log_db, phone_file, log_file, result,
                       calc, serialized>>

\* Line 107: db.append(new_phone)
CreateAppend(t) ==
    /\ procs[t].pc = "append"
    /\ db' = Append(db, procs[t].new_phone)
    /\ procs' = [procs EXCEPT ![t].pc = "save"]
    /\ UNCHANGED <<action_log_db, phone_file, log_file, result, calc,
                   serialized>>

\* Line 108: save_phone_database(db)
CreateSave(t) ==
    /\ procs[t].pc = "save"
    /\ phone_file' = save_phone_database(State).phone_file
    /\ procs' = [procs EXCEPT ![t].pc = "log"]
    /\ UNCHANGED <<db, action_log_db, log_file, result, calc, serialized>>

\* Line 109 and 110: log_action(...) and the return.
CreateLog(t) ==
    /\ procs[t].pc = "log"
    /\ LET out == log_action(State, "Phone Created",
                             <<procs[t].phone_data.model_name>>)
       IN  /\ action_log_db' = out.action_log_db
           /\ log_file' = out.log_file
    /\ result' = IF ValidPhone(procs[t].new_phone)
                 THEN [kind |-> "Phone", phone |-> procs[t].new_phone]
                 ELSE Raised("ValidationError")
    /\ procs' = [procs EXCEPT ![t] = Idle]
    /\ UNCHANGED <<db, phone_file, calc, serialized>>

NextInterleaved ==
    \E t \in Procs :
        \/ CreateReadId(t)
        \/ CreateAppend(t)
        \/ CreateSave(t)
        \/ CreateLog(t)

SpecInterleaved == InitInterleaved /\ [][NextInterleaved]_vars

---------------------------------------------------------------------------
(* calculate_platform_price on its own: the arguments are drawn by the     *)
(* initial state, the one action applies the function.                     *)

InitPrice ==
    /\ db = <<>>
    /\ action_log_db = <<>>
    /\ phone_file = <<>>
    /\ log_file = <<>>
    /\ result = [kind |-> "None"]
    /\ calc \in [base_price : BasePriceSamples, platform : CalcPlatforms,
                 manual_overrides : OverrideSamples, called : {FALSE},
                 price : {NoneValue}]
    /\ procs = [t \in Procs |-> Idle]
    /\ serialized = TRUE

CalculatePlatformPrice ==
    /\ ~calc.called
    /\ calc' = [calc EXCEPT
                  !.called = TRUE,
                  !.price = calculate_platform_price(
                                calc.base_price, calc.platform,
                                calc.manual_overrides)]
    /\ UNCHANGED <<db, action_log_db, phone_file, log_file, result,
                   procs, serialized>>

NextPrice == CalculatePlatformPrice

SpecPrice == InitPrice /\ [][NextPrice]_vars

---------------------------------------------------------------------------
(* Properties. *)

PhoneSet == {db[i] : i \in DOMAIN db}

Eligible(phone, p) ==
    /\ phone.stock_quantity > 0
    /\ map_condition_to_platform(phone.condition, p) # NoneStr
    /\ p = "X" => phone.base_price >= 50000

\* C1: every platform in a stored phone's listed_on is one the phone passes
\* eligibility for now: stock_quantity > 0, the condition maps on the platform,
\* and base_price >= 50 when the platform is X.
C1_ListedOnIsEligible ==
    \A phone \in PhoneSet :
        \A k \in DOMAIN phone.listed_on : Eligible(phone, phone.listed_on[k])

IdsOf(phones) == [i \in DOMAIN phones |-> phones[i].id]

UniqueIds(phones) ==
    \A i, j \in DOMAIN phones : i # j => phones[i].id # phones[j].id

\* Across a step the ids of the phones that stay are the same, in the same
\* places: the collection is only appended to, or loses one phone.
IdsKept ==
    \/ /\ Len(db') >= Len(db)
       /\ SubSeq(IdsOf(db'), 1, Len(db)) = IdsOf(db)
    \/ \E k \in DOMAIN db : IdsOf(db') = RemoveAt(IdsOf(db), k)

\* C2: no two stored phones have the same id, and the id of a stored phone
\* never changes between its creation and its deletion, whatever keys the
\* mappings passed to create, bulkUpload and update carry.
C2_IdsUniqueAndImmutable == [][UniqueIds(db') /\ IdsKept]_vars

\* Every id assigned so far: the ids in the collection and the ids that the
\* log records as deleted.
AssignedIds ==
    {db[i].id : i \in DOMAIN db}
        \cup {action_log_db[k].details[2] :
                k \in {n \in DOMAIN action_log_db :
                         action_log_db[n].action = "Phone Deleted"}}

\* C3: an id once assigned is never assigned again: the id of every phone a
\* step adds to the collection differs from every id assigned before the step.
C3_CreatedIdIsFresh ==
    [][\A i \in DOMAIN db' : i > Len(db) => db'[i].id \notin AssignedIds]_vars

NoDuplicates(s) == \A a, b \in DOMAIN s : a # b => s[a] # s[b]

Occurrences(x, s) == Cardinality({k \in DOMAIN s : s[k] = x})

\* The four collections are the same after the call as in the current state.
Untouched(out) ==
    /\ out.db = db
    /\ out.action_log_db = action_log_db
    /\ out.phone_file = phone_file
    /\ out.log_file = log_file

\* C5: in every reachable state, listOnPlatform(id, platform) called twice in
\* a row, the first call succeeding, succeeds again, changes nothing the second
\* time, leaves the platform once in listed_on and adds one "Platform Listing"
\* entry in all (none when the phone was listed already); and no listed_on
\* holds a platform twice.
C5_ListIsIdempotent ==
    /\ \A phone \in PhoneSet : NoDuplicates(phone.listed_on)
    /\ \A phone_id \in IdInputs, platform \in PlatformInputs :
        LET first == list_phone_on_platform(State, phone_id, platform)
            second == list_phone_on_platform(first, phone_id, platform)
            i == FirstIndex(db, phone_id)
        IN  first.result.kind = "message" =>
              /\ second.result = first.result
              /\ second.db = first.db
              /\ second.action_log_db = first.action_log_db
              /\ second.phone_file = first.phone_file
              /\ second.log_file = first.log_file
              /\ Occurrences(platform, second.db[i].listed_on) = 1
              /\ IF InSeq(platform, db[i].listed_on)
                 THEN second.action_log_db = action_log_db
                 ELSE /\ Len(second.action_log_db) = Len(action_log_db) + 1
                      /\ Tail(second.action_log_db) = action_log_db
                      /\ second.action_log_db[1].action = "Platform Listing"

\* C5's case: a listing has just succeeded and the phone holds the platform.
C5_Witness ==
    /\ result.kind = "message"
    /\ action_log_db # <<>>
    /\ action_log_db[1].action = "Platform Listing"
    /\ \E phone \in PhoneSet :
          /\ phone.model_name = result.model_name
          /\ Occurrences(result.platform, phone.listed_on) = 1

\* The outcome the eligibility chain prescribes for a phone id and a platform.
FirstFailedCheck(phone_id, platform) ==
    IF ~\E phone \in PhoneSet : phone.id = phone_id
    THEN "Phone not found"
    ELSE LET phone == CHOOSE ph \in PhoneSet : ph.id = phone_id
         IN  IF phone.stock_quantity = 0
             THEN "Cannot list out-of-stock phone"
             ELSE IF map_condition_to_platform(phone.condition, platform) = NoneStr
             THEN "Condition not supported"
             ELSE IF platform = "X" /\ phone.base_price < 50000
             THEN "Listing fee too high for this phone on platform X"
             ELSE "none"

\* C6: listOnPlatform returns the error of the first check that fails, in the
\* order not-found, out-of-stock, condition-unsupported, fee-too-high, and
\* succeeds when none fails; a phone with stock_quantity = 0 is rejected as out
\* of stock on every platform, known or not, and an absent id is not-found.
C6_FirstFailedCheckIsReported ==
    \A phone_id \in IdInputs, platform \in CalcPlatforms :
        LET out == list_phone_on_platform(State, phone_id, platform).result
            i == FirstIndex(db, phone_id)
        IN  /\ IF FirstFailedCheck(phone_id, platform) = "none"
               THEN out.kind = "message"
               ELSE /\ out.kind = "error"
                    /\ out.error = FirstFailedCheck(phone_id, platform)
            /\ i = 0 => out.kind = "error" /\ out.error = "Phone not found"
            /\ (i # 0 /\ db[i].stock_quantity = 0) =>
                  out.kind = "error" /\ out.error = "Cannot list out-of-stock phone"

\* C6's case: a listing was rejected as out of stock although every stored
\* phone also fails the condition check and the fee check on X.
C6_Witness ==
    /\ result.kind = "error"
    /\ result.error = "Cannot list out-of-stock phone"
    /\ db # <<>>
    /\ \A phone \in PhoneSet :
          /\ phone.stock_quantity = 0
          /\ map_condition_to_platform(phone.condition, "X") = NoneStr
          /\ phone.base_price < 50000

\* C7: a call that reports failure changes nothing: delete of an absent id
\* (false), update of an absent id (not found) and every listOnPlatform error
\* leave the phone collection, the log and both files as they were.
C7_FailureLeavesStateUnchanged ==
    \A phone_id \in IdInputs :
        LET absent == FirstIndex(db, phone_id) = 0
            deleted == delete_phone(State, phone_id)
        IN  /\ absent => deleted.result = [kind |-> "bool", value |-> FALSE]
            /\ ~deleted.result.value => Untouched(deleted)
            /\ \A phone_update \in PhoneUpdateInputs :
                  LET updated == update_phone(State, phone_id, phone_update)
                  IN  /\ absent => updated.result.kind = "None"
                      /\ updated.result.kind = "None" => Untouched(updated)
            /\ \A platform \in CalcPlatforms :
                  LET listed == list_phone_on_platform(State, phone_id, platform)
                  IN  listed.result.kind = "error" => Untouched(listed)

\* C7's case: a phone in stock, of a condition X accepts, priced under 50 and
\* not listed on X, right after a listing was rejected for the fee.
C7_Witness ==
    /\ result.kind = "error"
    /\ result.error = "Listing fee too high for this phone on platform X"
    /\ \E phone \in PhoneSet :
          /\ phone.base_price < 50000
          /\ phone.stock_quantity > 0
          /\ map_condition_to_platform(phone.condition, "X") # NoneStr
          /\ ~InSeq("X", phone.listed_on)
    /\ phone_file = db
    /\ log_file = action_log_db

\* C8: every step leaves the log as zero or more new entries followed by the
\* log from before the step, and the entry ids decrease strictly from head to
\* tail.
C8_LogAppendOnlyAtHead ==
    [][/\ \E k \in 0..Len(action_log_db') :
            /\ Len(action_log_db') = Len(action_log_db) + k
            /\ SubSeq(action_log_db', k + 1, Len(action_log_db')) = action_log_db
       /\ \A a, b \in DOMAIN action_log_db' :
            a < b => action_log_db'[a].id > action_log_db'[b].id]_vars

\* C8's case: a log of several entries, one of them inserted by a bulk call
\* that inserts more than one.
C8_Witness ==
    /\ Len(action_log_db) >= 3
    /\ action_log_db[1].action = "Bulk Upload"
    /\ action_log_db[1].id = Len(action_log_db)
    /\ action_log_db[Len(action_log_db)].id = 1

IsRounded2(v, n, d) ==
    /\ v % 10 = 0
    /\ 2 * (v * d - n) <= 10 * d
    /\ 2 * (n - v * d) <= 10 * d

\* The first phone created from empty storage with base_price 500.
Created500 ==
    create_phone([db |-> <<>>, action_log_db |-> <<>>, phone_file |-> <<>>,
                  log_file |-> <<>>],
                 [model_name |-> "iPhone 12", brand |-> "Apple",
                  condition |-> "Good", specifications |-> [storage |-> "128GB"],
                  stock_quantity |-> 10, base_price |-> 500000]).result.phone

\* C10 as stated: without a non-null override the price is b*1.10 for X,
\* b*1.08 + 2.0 for Y, b*1.12 for Z, rounded to two decimals, and b unchanged
\* for any other platform code; with one it is the override; a phone created
\* with base_price 500 has the prices 550.00, 542.00, 560.00.
C10_PriceAsStated ==
    /\ calc.called =>
        LET b == calc.base_price
            p == calc.platform
            mo == calc.manual_overrides
        IN  IF p \in DOMAIN mo /\ mo[p] # NoneValue THEN calc.price = mo[p]
            ELSE IF p = "X" THEN IsRounded2(calc.price, b * 110, 100)
            ELSE IF p = "Y" THEN IsRounded2(calc.price, b * 108 + 200000, 100)
            ELSE IF p = "Z" THEN IsRounded2(calc.price, b * 112, 100)
            ELSE calc.price = b
    /\ Created500.platform_prices = [X |-> 550000, Y |-> 542000, Z |-> 560000]

\* C10 amended: as stated, except that for a platform code outside X, Y, Z the
\* price is b rounded to two decimals.
C10_PriceRounded ==
    /\ calc.called =>
        LET b == calc.base_price
            p == calc.platform
            mo == calc.manual_overrides
        IN  IF p \in DOMAIN mo /\ mo[p] # NoneValue THEN calc.price = mo[p]
            ELSE IF p = "X" THEN IsRounded2(calc.price, b * 110, 100)
            ELSE IF p = "Y" THEN IsRounded2(calc.price, b * 108 + 200000, 100)
            ELSE IF p = "Z" THEN IsRounded2(calc.price, b * 112, 100)
            ELSE IsRounded2(calc.price, b, 1)
    /\ Created500.platform_prices = [X |-> 550000, Y |-> 542000, Z |-> 560000]

\* C10's case: an unknown platform code, no override for it, and a base price
\* of 49.999, which comes back as 50.00.
C10_Witness ==
    /\ calc.called
    /\ calc.platform = "W"
    /\ "W" \notin DOMAIN calc.manual_overrides
    /\ calc.base_price = 49999
    /\ calc.price = 50000

\* C11: bulkListOnPlatform returns success = the number of phones that match
\* the case-insensitive brand/condition filter, were not listed on the platform
\* before the call and are listed on it after, and failed = the number of
\* matching, unlisted phones that are still not listed; phones outside the
\* filter are untouched, and exactly one "Bulk Listing" entry is inserted, at
\* the head of the log, also when both counts are 0.
C11_BulkListCounts ==
    \A platform \in PlatformInputs, brand \in BrandFilters,
       condition \in ConditionFilters :
        LET out == bulk_list_on_platform(State, platform, brand, condition)
            Matches(i) ==
                /\ Truthy(brand) => Lower(db[i].brand) = Lower(brand)
                /\ Truthy(condition) => Lower(db[i].condition) = Lower(condition)
            Before(i) == InSeq(platform, db[i].listed_on)
            After(i) == InSeq(platform, out.db[i].listed_on)
            added == Len(out.action_log_db) - Len(action_log_db)
        IN  /\ Len(out.db) = Len(db)
            /\ out.result.success =
                  Cardinality({i \in DOMAIN db :
                                  Matches(i) /\ ~Before(i) /\ After(i)})
            /\ out.result.failed =
                  Cardinality({i \in DOMAIN db :
                                  Matches(i) /\ ~Before(i) /\ ~After(i)})
            /\ \A i \in DOMAIN db : ~Matches(i) => out.db[i] = db[i]
            /\ added >= 1
            /\ SubSeq(out.action_log_db, added + 1, Len(out.action_log_db))
                  = action_log_db
            /\ out.action_log_db[1].action = "Bulk Listing"
            /\ Cardinality({k \in 1..added :
                              out.action_log_db[k].action = "Bulk Listing"}) = 1

\* Every platform of `earlier` is in `later`, in the same relative order.
KeepsPlatforms(earlier, later) ==
    SelectSeq(later, LAMBDA x : InSeq(x, earlier)) = earlier

RECURSIVE SumOver(_, _)
\* The sum of w[x] over the x in S.
SumOver(S, w) ==
    IF S = {} THEN 0
    ELSE LET x == CHOOSE y \in S : TRUE
         IN  w[x] + SumOver(S \ {x}, w)

\* C14: in every reachable state and for all three filters, the analytics
\* call does not fail and reports total_phones = the totalItems search
\* reports for the same filters, total_stock_units = the sum of
\* stock_quantity and total_inventory_value = the sum of base_price *
\* stock_quantity over the matching phones; the counts in stock_by_brand and
\* in stock_by_condition each sum to total_phones; with no match the totals
\* are 0 and both mappings empty.
C14_AnalyticsTotals ==
    \A brand \in BrandFilters, condition \in ConditionFilters,
       platform \in PlatformFilters :
        LET a == get_dashboard_analytics(db, brand, condition, platform)
            page == search_and_filter_phones(db, brand, condition, platform, 0, 15)
            matching ==
                {i \in DOMAIN db :
                    /\ Truthy(brand) => Lower(db[i].brand) = Lower(brand)
                    /\ Truthy(condition) =>
                          Lower(db[i].condition) = Lower(condition)
                    /\ Truthy(platform) => InSeq(platform, db[i].listed_on)}
            stock(i) == db[i].stock_quantity
            value(i) == db[i].base_price * db[i].stock_quantity
        IN  /\ "kind" \notin DOMAIN a
            /\ a.total_phones = page.total_items
            /\ a.total_phones = Cardinality(matching)
            /\ a.total_stock_units =
                  SumOver(matching, [i \in matching |-> stock(i)])
            /\ a.total_inventory_value =
                  SumOver(matching, [i \in matching |-> value(i)])
            /\ SumOver(DOMAIN a.stock_by_brand, a.stock_by_brand) = a.total_phones
            /\ SumOver(DOMAIN a.stock_by_condition, a.stock_by_condition)
                  = a.total_phones
            /\ matching = {} =>
                  a = [total_phones |-> 0, total_stock_units |-> 0,
                       total_inventory_value |-> 0,
                       stock_by_brand |-> <<>>, stock_by_condition |-> <<>>]

\* C15: when requests are let into the service one at a time, no two stored
\* phones share an id; a request that has appended has stored the record it
\* built from the id it read. When they are not, two requests that read the
\* same id before either appended have both stored a phone with that id.
C15_SafeOnlyWhenSerialized ==
    /\ serialized => UniqueIds(db)
    /\ \A t \in Procs :
          procs[t].pc \in {"save", "log"} =>
              \E i \in DOMAIN db : db[i] = procs[t].new_phone
    /\ \A t, u \in Procs :
          /\ t # u
          /\ procs[t].pc \in {"save", "log"}
          /\ procs[u].pc \in {"save", "log"}
          /\ procs[t].phone_id = procs[u].phone_id
          => Cardinality({i \in DOMAIN db : db[i].id = procs[t].phone_id}) >= 2

\* C15's case: two creates that overlapped have both returned, and the
\* collection in memory and in the file holds two phones with the same id.
C15_Witness ==
    /\ ~serialized
    /\ InCall = {}
    /\ Len(db) = 2
    /\ db[1].id = db[2].id
    /\ phone_file = db
    /\ result.kind = "Phone"

=============================================================================
